---- MODULE Spec2Model ----
(***************************************************************************)
(* BlueskyChannel (src/src/channels/bluesky.ts): the DM channel adapter.   *)
(*                                                                         *)
(* JavaScript runs one synchronous segment at a time; an async function    *)
(* gives up control only at an await.  Every action below is one such      *)
(* segment: a facade call made by the host, or the continuation of an      *)
(* await (login, listConvos, getLog, sleep) of one start() or poll()       *)
(* invocation.  The for-loop over a batch is one synchronous segment: it   *)
(* is taken event by event, and while it runs no other segment may run     *)
(* (InSync); what the callback itself does (return, throw, call stop())    *)
(* is part of the event's step.                                            *)
(*                                                                         *)
(* The backend is the environment: a login, listConvos or getLog call      *)
(* returns or throws; a chat call issued on an agent without a session     *)
(* throws; getLog asked with cursor c returns the events after c up to a   *)
(* cursor at or after c, or no cursor and no events.                       *)
(***************************************************************************)
EXTENDS Integers, Sequences, FiniteSets, TLC

\* Number of start() calls that get as far as creating an agent.
MaxStarts == 2

\* private agent: AtpAgent | null = null; agents are numbered 1..MaxStarts
NoAgent == 0
\* private cursor: string | undefined = undefined
CursorUndefined == -1
\* an empty string returned as data.cursor (falsy, like undefined)
CursorEmpty == -2
\* stopCursor while no stop() awaits the next fetch
NotStopped == -3

Agents == 1..MaxStarts

Identifiers == {"", "alice"}
Passwords == {"", "pw"}
Callbacks == {"cb1", "cb2"}

\* session.did of an agent logged in with this identifier
DidOf(id) == IF id = "alice" THEN "did:alice" ELSE "did:unknown"

\* The backend's conversation log; event i has message id i, and the cursor
\* string c_k (the integer k here) stands after the first k events.
\* A conversation id is a sequence of pieces of text, so that one may begin with
\* the text of the channel prefix.  msg is the $type of the event's message:
\* "none" when the event carries no message.
Log ==
  << [type |-> "logCreateMessage", msg |-> "messageView",
      sender |-> "did:bob", convoId |-> <<"c1">>, text |-> "hello"],
     [type |-> "logCreateMessage", msg |-> "messageView",
      sender |-> "did:alice", convoId |-> <<"c1">>, text |-> "hi"],
     [type |-> "logReadMessage", msg |-> "none",
      sender |-> "did:bob", convoId |-> <<"c1">>, text |-> ""],
     [type |-> "logCreateMessage", msg |-> "none",
      sender |-> "did:bob", convoId |-> <<"c1">>, text |-> ""],
     [type |-> "logCreateMessage", msg |-> "deletedMessageView",
      sender |-> "did:bob", convoId |-> <<"c1">>, text |-> ""],
     [type |-> "logCreateMessage", msg |-> "messageView",
      sender |-> "did:carol", convoId |-> <<"bsky:", "c2">>, text |-> ""] >>

LogLen == Len(Log)

\* data.convos[*].members of a listConvos response
Listings ==
  { {[did |-> "did:bob", handle |-> "bob.test"]},
    {[did |-> "did:bob", handle |-> ""], [did |-> "", handle |-> "ghost.test"]} }

MemberDids == {"did:alice", "did:bob", "did:carol"}

\* the strings that can be keys of this.didHandleMap
MapKeys == MemberDids \cup {""}

\* what this.didHandleMap.get(did) returns for a did that is not a key
NoHandle == "undefined"

VARIABLES
  identifier, password,   \* this.identifier, this.password
  running,                \* this.running
  agent,                  \* this.agent: NoAgent or the agent's number
  nextAgent,              \* number of AtpAgent objects created so far
  session,                \* session[a]: agent a's session.did, "undefined" before login
  messageCallback,        \* this.messageCallback: "none" or a callback
  cursor,                 \* this.cursor
  didHandleMap,           \* this.didHandleMap: key -> handle, NoHandle when not a key
  startPc,                \* start() invocation s: "idle", "login", "done"
  loginId,                \* identifier passed to agent.login by invocation s
  pollPc,                 \* poll() invocation p: where it is suspended
  reqAuthed,              \* whether p's pending chat call was issued on a logged-in agent
  reqCursor,              \* the cursor p's pending getLog call was issued with
  batch,                  \* the events p's for-loop has still to visit
  myDid,                  \* p's const myDid
  sendPc,                 \* the send() invocation: "idle", or "await" at line 75
  sent,                   \* the sendMessage requests in flight at the backend
  \* history
  stopState,              \* "clear"; "stopped": stop() called, no start() since;
                          \* "restarting": a start() called since, none of them logged in yet
  stale,                  \* stale[s]: stop() was called after start() invocation s began
  refreshFailed,          \* refreshFailed[p]: listConvos threw in p's current tick
  sendArgs,               \* the arguments of the send() invocation that is awaiting
  fate,                   \* fate[i] of event i: "none"; "delivered": the callback was invoked
                          \* for it; "unheard": the loop passed over it because no callback
                          \* was registered; "dropped": the tick that fetched it ended
                          \* before reaching it
  stopCursor,             \* the cursor stored when stop() was last called, NotStopped once
                          \* a getLog request has been issued since (or before any stop())
  thrown,                 \* thrown[p]: the cursor returned by the fetch of the batch in
                          \* which p's callback threw in its previous tick, if it did
  last                    \* the step just taken

vars == << identifier, password, running, agent, nextAgent, session, messageCallback,
           cursor, didHandleMap, startPc, loginId, pollPc, reqAuthed, reqCursor,
           batch, myDid, sendPc, sent, stopState, stale, refreshFailed, sendArgs,
           fate, stopCursor, thrown, last >>

\* the fields of the channel and the invocations awaiting a backend call
channelVars == << identifier, password, running, agent, nextAgent, session,
                  messageCallback, cursor, didHandleMap, startPc, loginId, pollPc,
                  reqAuthed, reqCursor, batch, myDid, sendPc, sent >>

\* what belongs to send()
sendVars == << sendPc, sent, sendArgs >>

\* ---------------------------------------------------------------------------
\* Helpers
\* ---------------------------------------------------------------------------

\* the sender's did handed on without a look at the map
Resolve_AlwaysDid(map, did) == did

\* this.didHandleMap.get(did) || did
Resolve(map, did) == IF map[did] \notin {NoHandle, ""} THEN map[did] ELSE did

\* lines 134-141: the InboundMessage built for event i (the timestamp, parsed
\* from sentAt, is left out)
InboundMessage(i) ==
  [id |-> i,
   groupId |-> <<"bsky:">> \o Log[i].convoId,
   sender |-> Resolve(didHandleMap, Log[i].sender),
   content |-> IF Log[i].text # "" THEN Log[i].text ELSE "[Non-text message]",
   channel |-> "bluesky"]

NoArgs == [groupId |-> << >>, text |-> ""]

NoMessage == [id |-> 0, groupId |-> << >>, sender |-> "", content |-> "", channel |-> ""]

\* The record of a step: what it was, the values it found, and the message it
\* handed to the callback, with the callback it was handed to.
Rec(op, p, ret, ev) ==
  [op |-> op, p |-> p, cur |-> cursor, ret |-> ret, ev |-> ev,
   st |-> stopState, was |-> IF ev = 0 THEN "none" ELSE fate[ev],
   out |-> IF op \in {"callback", "callbackThrow", "callbackStop"}
           THEN messageCallback ELSE "none",
   msg |-> IF op \in {"callback", "callbackThrow", "callbackStop"}
           THEN InboundMessage(ev) ELSE NoMessage,
   sc |-> IF op = "getLogCall" THEN stopCursor ELSE NotStopped]

\* the record of a facade call that hands a result to its caller
RecOut(op, out) == [Rec(op, 0, CursorUndefined, 0) EXCEPT !.out = out]

\* while the for-loop of some poll() invocation runs, nothing else does
InSync == \E p \in Agents : pollPc[p] = "batch"

\* the poll() invocations that have not returned
ActiveLoops == {p \in Agents : pollPc[p] \notin {"none", "done"}}

\* the start() invocations awaiting their login call
PendingLogins == {s \in Agents : startPc[s] = "login"}

\* if (data.cursor): a non-empty string
Truthy(c) == c >= 0

\* the log position a getLog call with this cursor reads from
From(c) == IF c >= 0 THEN c ELSE 0

\* the events of the response taken last first
Window_Reversed(a, b) == [k \in 1..(b - a) |-> b - k + 1]

\* data.logs: the events after position a up to position b, in log order
Window(a, b) == [k \in 1..(b - a) |-> a + k]

\* the test of the event's $type alone, without the test of its message
IsMessage_TypeOnly(i) == Log[i].type = "logCreateMessage"

\* lines 123-126: a "message created" event carrying a message view
IsMessage(i) == Log[i].type = "logCreateMessage" /\ Log[i].msg = "messageView"

\* the self-filter comparison inverted (=== for !==)
Passes_Inverted(i, did) == IsMessage(i) /\ Log[i].sender = did

\* lines 123-129: the event reaches the callback invocation
Passes(i, did) == IsMessage(i) /\ Log[i].sender # did

\* every listed member set, whatever its did and handle are
Upsert_Unchecked(map, members) ==
  [d \in MapKeys |->
     IF \E m \in members : m.did = d
     THEN (CHOOSE m \in members : m.did = d).handle
     ELSE map[d]]

\* this.didHandleMap.set(member.did, member.handle) for every member with both
Upsert(map, members) ==
  [d \in MapKeys |->
     IF \E m \in members : m.did = d /\ m.did # "" /\ m.handle # ""
     THEN (CHOOSE m \in members : m.did = d /\ m.did # "" /\ m.handle # "").handle
     ELSE map[d]]

\* the catch block leaving the loop whatever the running flag is
CatchPc_Breaks(run) == "done"

\* catch (err) { if (!this.running) break; console.error(...) }; then the sleep
CatchPc(run) == IF run THEN "sleep" ELSE "done"

\* the flag of a tick lives until the tick ends (the loop sleeps or returns)
EndTick(rf, p, pc) == IF pc \in {"sleep", "done"} THEN [rf EXCEPT ![p] = FALSE] ELSE rf

\* what stop() does to the history
StopHistory ==
  /\ stopState' = "stopped"
  /\ stale' = [s \in Agents |-> startPc[s] = "login"]
  /\ stopCursor' = cursor

\* what a call of start() does to the history
StartHistory == stopState' = IF stopState = "stopped" THEN "restarting" ELSE stopState

\* the callback was invoked for event i
Deliver(f, i) == [f EXCEPT ![i] = "delivered"]

\* this.messageCallback?.(...) on event i while no callback is registered
Unheard(f, i) == [f EXCEPT ![i] = IF @ = "delivered" THEN @ ELSE "unheard"]

\* the tick ended before the loop reached the events of set S
Drop(f, S) == [i \in 1..LogLen |-> IF i \in S /\ f[i] = "none" THEN "dropped" ELSE f[i]]

\* poll() from the while condition to the await on listConvos:
\*   while (this.running && this.agent) { try { await this.refreshDidHandleMap() ...
\* refreshDidHandleMap's own "if (!this.agent) return" cannot be taken here: the
\* while condition was evaluated in the same synchronous segment.
LoopTop(p, run, ag, sess) ==
  IF run /\ ag # NoAgent
  THEN /\ pollPc' = [pollPc EXCEPT ![p] = "listConvos"]
       /\ reqAuthed' = [reqAuthed EXCEPT ![p] = sess[ag] # "undefined"]
  ELSE /\ pollPc' = [pollPc EXCEPT ![p] = "done"]
       /\ reqAuthed' = [reqAuthed EXCEPT ![p] = FALSE]

\* ---------------------------------------------------------------------------
\* Initial state: a freshly constructed BlueskyChannel
\* ---------------------------------------------------------------------------

Init ==
  /\ identifier = ""
  /\ password = ""
  /\ running = FALSE
  /\ agent = NoAgent
  /\ nextAgent = 0
  /\ session = [a \in Agents |-> "undefined"]
  /\ messageCallback = "none"
  /\ cursor = CursorUndefined
  /\ didHandleMap = [d \in MapKeys |-> NoHandle]
  /\ startPc = [s \in Agents |-> "idle"]
  /\ loginId = [s \in Agents |-> ""]
  /\ pollPc = [p \in Agents |-> "none"]
  /\ reqAuthed = [p \in Agents |-> FALSE]
  /\ reqCursor = [p \in Agents |-> CursorUndefined]
  /\ batch = [p \in Agents |-> << >>]
  /\ myDid = [p \in Agents |-> "undefined"]
  /\ sendPc = "idle"
  /\ sent = << >>
  /\ sendArgs = NoArgs
  /\ stopState = "clear"
  /\ stale = [s \in Agents |-> FALSE]
  /\ refreshFailed = [p \in Agents |-> FALSE]
  /\ fate = [i \in 1..LogLen |-> "none"]
  /\ stopCursor = NotStopped
  /\ thrown = [p \in Agents |-> CursorUndefined]
  /\ last = [op |-> "init", p |-> 0, cur |-> CursorUndefined, ret |-> CursorUndefined,
             ev |-> 0, st |-> "clear", was |-> "none", out |-> "none",
             msg |-> NoMessage, sc |-> NotStopped]

\* ---------------------------------------------------------------------------
\* The facade
\* ---------------------------------------------------------------------------

\* a configuration that also forgets the cursor
configure_ResetsCursor(i, pw) ==
  /\ ~InSync
  /\ identifier' = i
  /\ password' = pw
  /\ cursor' = CursorUndefined
  /\ last' = Rec("configure", 0, CursorUndefined, 0)
  /\ UNCHANGED << running, agent, nextAgent, session, messageCallback,
                  didHandleMap, startPc, loginId, pollPc, reqAuthed, reqCursor,
                  batch, myDid, stopState, stale, refreshFailed, fate >>
  /\ UNCHANGED sendVars
  /\ UNCHANGED << thrown, stopCursor >>

configure(i, pw) ==
  /\ ~InSync
  /\ identifier' = i
  /\ password' = pw
  /\ last' = Rec("configure", 0, CursorUndefined, 0)
  /\ UNCHANGED << running, agent, nextAgent, session, messageCallback, cursor,
                  didHandleMap, startPc, loginId, pollPc, reqAuthed, reqCursor,
                  batch, myDid, stopState, stale, refreshFailed, fate >>
  /\ UNCHANGED sendVars
  /\ UNCHANGED << thrown, stopCursor >>

\* start() without the test of the running flag: a new agent and a login call
startNoop_CreatesAgent ==
  /\ ~InSync
  /\ identifier = "" \/ password = "" \/ running
  /\ nextAgent < MaxStarts
  /\ nextAgent' = nextAgent + 1
  /\ agent' = nextAgent'
  /\ startPc' = [startPc EXCEPT ![nextAgent'] = "login"]
  /\ loginId' = [loginId EXCEPT ![nextAgent'] = identifier]
  /\ StartHistory
  /\ last' = Rec("startNoop", 0, CursorUndefined, 0)
  /\ UNCHANGED << identifier, password, running, session, messageCallback, cursor,
                  didHandleMap, pollPc, reqAuthed, reqCursor, batch, myDid, stale,
                  refreshFailed, fate >>
  /\ UNCHANGED sendVars
  /\ UNCHANGED << thrown, stopCursor >>

\* start(): the two early returns
startNoop ==
  /\ ~InSync
  /\ identifier = "" \/ password = "" \/ running
  /\ StartHistory
  /\ last' = Rec("startNoop", 0, CursorUndefined, 0)
  /\ UNCHANGED << identifier, password, running, agent, nextAgent, session,
                  messageCallback, cursor, didHandleMap, startPc, loginId, pollPc,
                  reqAuthed, reqCursor, batch, myDid, stale, refreshFailed,
                  fate >>
  /\ UNCHANGED sendVars
  /\ UNCHANGED << thrown, stopCursor >>

\* start(): this.agent = new AtpAgent(...); await this.agent.login(...)
startLogin ==
  /\ ~InSync
  /\ identifier # "" /\ password # "" /\ ~running
  /\ nextAgent < MaxStarts
  /\ nextAgent' = nextAgent + 1
  /\ agent' = nextAgent'
  /\ startPc' = [startPc EXCEPT ![nextAgent'] = "login"]
  /\ loginId' = [loginId EXCEPT ![nextAgent'] = identifier]
  /\ StartHistory
  /\ last' = Rec("startLogin", nextAgent', CursorUndefined, 0)
  /\ UNCHANGED << identifier, password, running, session, messageCallback, cursor,
                  didHandleMap, pollPc, reqAuthed, reqCursor, batch, myDid, stale,
                  refreshFailed, fate >>
  /\ UNCHANGED sendVars
  /\ UNCHANGED << thrown, stopCursor >>

\* start() after the login call returned: this.running = true; this.poll()
loginOk(s) ==
  /\ ~InSync
  /\ startPc[s] = "login"
  /\ startPc' = [startPc EXCEPT ![s] = "done"]
  /\ loginId' = [loginId EXCEPT ![s] = ""]
  /\ session' = [session EXCEPT ![s] = DidOf(loginId[s])]
  /\ running' = TRUE
  /\ LoopTop(s, TRUE, agent, session')
  /\ stopState' = IF stale[s] THEN stopState ELSE "clear"
  /\ stale' = [stale EXCEPT ![s] = FALSE]
  /\ last' = Rec("loginOk", s, CursorUndefined, 0)
  /\ UNCHANGED << identifier, password, agent, nextAgent, messageCallback, cursor,
                  didHandleMap, reqCursor, batch, myDid, refreshFailed, fate >>
  /\ UNCHANGED sendVars
  /\ UNCHANGED << thrown, stopCursor >>

\* stop() forgetting the cursor as well
stop_ClearsCursor ==
  /\ ~InSync
  /\ running' = FALSE
  /\ agent' = NoAgent
  /\ StopHistory
  /\ cursor' = CursorUndefined
  /\ last' = Rec("stop", 0, CursorUndefined, 0)
  /\ UNCHANGED << identifier, password, nextAgent, session, messageCallback,
                  didHandleMap, startPc, loginId, pollPc, reqAuthed, reqCursor,
                  batch, myDid, refreshFailed, fate >>
  /\ UNCHANGED sendVars
  /\ UNCHANGED thrown

\* the failed login discarding the secret it was made with
loginFail_ClearsPassword(s) ==
  /\ ~InSync
  /\ startPc[s] = "login"
  /\ startPc' = [startPc EXCEPT ![s] = "done"]
  /\ loginId' = [loginId EXCEPT ![s] = ""]
  /\ agent' = NoAgent
  /\ password' = ""
  /\ stale' = [stale EXCEPT ![s] = FALSE]
  /\ last' = Rec("loginFail", s, CursorUndefined, 0)
  /\ UNCHANGED << identifier, running, nextAgent, session, messageCallback,
                  cursor, didHandleMap, pollPc, reqAuthed, reqCursor, batch, myDid,
                  stopState, refreshFailed, fate >>
  /\ UNCHANGED sendVars
  /\ UNCHANGED << thrown, stopCursor >>

\* start() after the login call threw: this.agent = null; return
loginFail(s) ==
  /\ ~InSync
  /\ startPc[s] = "login"
  /\ startPc' = [startPc EXCEPT ![s] = "done"]
  /\ loginId' = [loginId EXCEPT ![s] = ""]
  /\ agent' = NoAgent
  /\ stale' = [stale EXCEPT ![s] = FALSE]
  /\ last' = Rec("loginFail", s, CursorUndefined, 0)
  /\ UNCHANGED << identifier, password, running, nextAgent, session, messageCallback,
                  cursor, didHandleMap, pollPc, reqAuthed, reqCursor, batch, myDid,
                  stopState, refreshFailed, fate >>
  /\ UNCHANGED sendVars
  /\ UNCHANGED << thrown, stopCursor >>

\* stop(): this.running = false; this.agent = null
stop ==
  /\ ~InSync
  /\ running' = FALSE
  /\ agent' = NoAgent
  /\ StopHistory
  /\ last' = Rec("stop", 0, CursorUndefined, 0)
  /\ UNCHANGED << identifier, password, nextAgent, session, messageCallback, cursor,
                  didHandleMap, startPc, loginId, pollPc, reqAuthed, reqCursor,
                  batch, myDid, refreshFailed, fate >>
  /\ UNCHANGED sendVars
  /\ UNCHANGED thrown

\* a registration that leaves a callback registered earlier in place
onMessage_KeepsFirst(cb) ==
  /\ ~InSync
  /\ messageCallback' = IF messageCallback = "none" THEN cb ELSE messageCallback
  /\ last' = [RecOut("onMessage", cb) EXCEPT !.was = messageCallback]
  /\ UNCHANGED << identifier, password, running, agent, nextAgent, session, cursor,
                  didHandleMap, startPc, loginId, pollPc, reqAuthed, reqCursor,
                  batch, myDid, stopState, stale, refreshFailed, fate >>
  /\ UNCHANGED sendVars
  /\ UNCHANGED << thrown, stopCursor >>

\* the step records the callback registered before it and the one it registers
onMessage(cb) ==
  /\ ~InSync
  /\ messageCallback' = cb
  /\ last' = [RecOut("onMessage", cb) EXCEPT !.was = messageCallback]
  /\ UNCHANGED << identifier, password, running, agent, nextAgent, session, cursor,
                  didHandleMap, startPc, loginId, pollPc, reqAuthed, reqCursor,
                  batch, myDid, stopState, stale, refreshFailed, fate >>
  /\ UNCHANGED sendVars
  /\ UNCHANGED << thrown, stopCursor >>

\* the arguments send() and setTyping() are called with: the group id of
\* conversation c1, that of a conversation whose own id begins with the text of
\* the prefix, and a bare conversation id
GroupIds == { <<"bsky:", "c1">>, <<"bsky:", "bsky:", "c2">>, <<"c1">> }
Texts == {"yo", ""}

\* groupId.replace(/^bsky:/, ''): the first occurrence at the start, once
StripPrefix(groupId) ==
  IF groupId # << >> /\ Head(groupId) = "bsky:" THEN Tail(groupId) ELSE groupId

\* the request leaving out the conversation id's own prefix text as well
SendMessage_StripsAll(groupId, text, authed) ==
  [convoId |-> SelectSeq(groupId, LAMBDA t : t # "bsky:"), text |-> text,
   authed |-> authed]

\* lines 75-78: the sendMessage request made for these arguments
SendMessage(groupId, text, authed) ==
  [convoId |-> StripPrefix(groupId), text |-> text, authed |-> authed]

\* send() up to its await: returns when there is no agent, otherwise issues
\* one sendMessage request on the agent
send(groupId, text) ==
  /\ ~InSync
  /\ sendPc = "idle"
  /\ IF agent = NoAgent
     THEN /\ last' = RecOut("sendNoop", "resolved")
          /\ UNCHANGED sendVars
     ELSE /\ sendPc' = "await"
          /\ sendArgs' = [groupId |-> groupId, text |-> text]
          /\ sent' = Append(sent, SendMessage(groupId, text,
                                              session[agent] # "undefined"))
          /\ last' = Rec("send", 0, CursorUndefined, 0)
  /\ UNCHANGED << identifier, password, running, agent, nextAgent, session,
                  messageCallback, cursor, didHandleMap, startPc, loginId, pollPc,
                  reqAuthed, reqCursor, batch, myDid, stopState, stale,
                  refreshFailed, fate >>
  /\ UNCHANGED << thrown, stopCursor >>

\* the sendMessage request returned: send() returns
sendResolve ==
  /\ ~InSync
  /\ sendPc = "await"
  /\ sent # << >> /\ Head(sent).authed
  /\ sendPc' = "idle"
  /\ sent' = Tail(sent)
  /\ sendArgs' = NoArgs
  /\ last' = RecOut("sendResolve", "resolved")
  /\ UNCHANGED << identifier, password, running, agent, nextAgent, session,
                  messageCallback, cursor, didHandleMap, startPc, loginId, pollPc,
                  reqAuthed, reqCursor, batch, myDid, stopState, stale,
                  refreshFailed, fate >>
  /\ UNCHANGED << thrown, stopCursor >>

\* the rejection caught inside send() and not handed on
sendReject_Swallows ==
  /\ ~InSync
  /\ sendPc = "await"
  /\ sent # << >>
  /\ sendPc' = "idle"
  /\ sent' = Tail(sent)
  /\ sendArgs' = NoArgs
  /\ last' = RecOut("sendReject", "resolved")
  /\ UNCHANGED << identifier, password, running, agent, nextAgent, session,
                  messageCallback, cursor, didHandleMap, startPc, loginId, pollPc,
                  reqAuthed, reqCursor, batch, myDid, stopState, stale,
                  refreshFailed, fate >>
  /\ UNCHANGED << thrown, stopCursor >>

\* the sendMessage request threw: nothing in send() catches it, the promise
\* send() returned rejects
sendReject ==
  /\ ~InSync
  /\ sendPc = "await"
  /\ sent # << >>
  /\ sendPc' = "idle"
  /\ sent' = Tail(sent)
  /\ sendArgs' = NoArgs
  /\ last' = RecOut("sendReject", "rejected")
  /\ UNCHANGED << identifier, password, running, agent, nextAgent, session,
                  messageCallback, cursor, didHandleMap, startPc, loginId, pollPc,
                  reqAuthed, reqCursor, batch, myDid, stopState, stale,
                  refreshFailed, fate >>
  /\ UNCHANGED << thrown, stopCursor >>

\* a typing indicator sent to the conversation as a request of its own
setTyping_IssuesCall(groupId, typing) ==
  /\ ~InSync
  /\ agent # NoAgent
  /\ sent' = Append(sent, SendMessage(groupId, "", session[agent] # "undefined"))
  /\ last' = RecOut("setTyping", "returned")
  /\ UNCHANGED << identifier, password, running, agent, nextAgent, session,
                  messageCallback, cursor, didHandleMap, startPc, loginId, pollPc,
                  reqAuthed, reqCursor, batch, myDid, stopState, stale,
                  refreshFailed, fate, sendPc, sendArgs >>
  /\ UNCHANGED << thrown, stopCursor >>

\* setTyping(): an empty body
setTyping(groupId, typing) ==
  /\ ~InSync
  /\ last' = RecOut("setTyping", "returned")
  /\ UNCHANGED << identifier, password, running, agent, nextAgent, session,
                  messageCallback, cursor, didHandleMap, startPc, loginId, pollPc,
                  reqAuthed, reqCursor, batch, myDid, stopState, stale,
                  refreshFailed, fate >>
  /\ UNCHANGED sendVars
  /\ UNCHANGED << thrown, stopCursor >>

\* the length of a credential: 0 for the empty string
Length(str) == IF str = "" THEN 0 ELSE 1

\* the test for a non-empty identifier alone
IsConfiguredValue_IdentifierOnly(i, pw) ==
  IF Length(i) > 0 THEN "true" ELSE "false"

\* this.identifier.length > 0 && this.password.length > 0
IsConfiguredValue(i, pw) ==
  IF Length(i) > 0 /\ Length(pw) > 0 THEN "true" ELSE "false"

isConfigured ==
  /\ ~InSync
  /\ last' = RecOut("isConfigured", IsConfiguredValue(identifier, password))
  /\ UNCHANGED << identifier, password, running, agent, nextAgent, session,
                  messageCallback, cursor, didHandleMap, startPc, loginId, pollPc,
                  reqAuthed, reqCursor, batch, myDid, stopState, stale,
                  refreshFailed, fate >>
  /\ UNCHANGED sendVars
  /\ UNCHANGED << thrown, stopCursor >>

\* ---------------------------------------------------------------------------
\* poll() and refreshDidHandleMap()
\* ---------------------------------------------------------------------------

\* listConvos returned: the members with a did and a handle are upserted
listConvosOk(p, members) ==
  /\ ~InSync
  /\ pollPc[p] = "listConvos"
  /\ reqAuthed[p]
  /\ didHandleMap' = Upsert(didHandleMap, members)
  /\ pollPc' = [pollPc EXCEPT ![p] = "refreshed"]
  /\ reqAuthed' = [reqAuthed EXCEPT ![p] = FALSE]
  /\ last' = Rec("listConvosOk", p, CursorUndefined, 0)
  /\ UNCHANGED << identifier, password, running, agent, nextAgent, session,
                  messageCallback, cursor, startPc, loginId, reqCursor, batch, myDid,
                  stopState, stale, refreshFailed, fate >>
  /\ UNCHANGED sendVars
  /\ UNCHANGED << thrown, stopCursor >>

\* listConvos threw and the exception reaches the catch block of poll()
listConvosThrow_Propagates(p) ==
  /\ ~InSync
  /\ pollPc[p] = "listConvos"
  /\ pollPc' = [pollPc EXCEPT ![p] = CatchPc(running)]
  /\ reqAuthed' = [reqAuthed EXCEPT ![p] = FALSE]
  /\ last' = Rec("listConvosThrow", p, CursorUndefined, 0)
  /\ UNCHANGED << identifier, password, running, agent, nextAgent, session,
                  messageCallback, cursor, didHandleMap, startPc, loginId, reqCursor,
                  batch, myDid, stopState, stale, refreshFailed, fate >>
  /\ UNCHANGED sendVars
  /\ UNCHANGED << thrown, stopCursor >>

\* listConvos threw: catch { /* non-fatal */ }
listConvosThrow(p) ==
  /\ ~InSync
  /\ pollPc[p] = "listConvos"
  /\ pollPc' = [pollPc EXCEPT ![p] = "refreshed"]
  /\ reqAuthed' = [reqAuthed EXCEPT ![p] = FALSE]
  /\ refreshFailed' = [refreshFailed EXCEPT ![p] = TRUE]
  /\ last' = Rec("listConvosThrow", p, CursorUndefined, 0)
  /\ UNCHANGED << identifier, password, running, agent, nextAgent, session,
                  messageCallback, cursor, didHandleMap, startPc, loginId, reqCursor,
                  batch, myDid, stopState, stale, fate >>
  /\ UNCHANGED sendVars
  /\ UNCHANGED << thrown, stopCursor >>

\* the getLog call made without the stored cursor
getLogCall_FromStart(p) ==
  /\ ~InSync
  /\ pollPc[p] = "refreshed"
  /\ agent # NoAgent
  /\ pollPc' = [pollPc EXCEPT ![p] = "getLog"]
  /\ reqAuthed' = [reqAuthed EXCEPT ![p] = session[agent] # "undefined"]
  /\ reqCursor' = [reqCursor EXCEPT ![p] = CursorUndefined]
  /\ last' = Rec("getLogCall", p, CursorUndefined, 0)
  /\ UNCHANGED << identifier, password, running, agent, nextAgent, session,
                  messageCallback, cursor, didHandleMap, startPc, loginId, batch,
                  myDid, stopState, stale, refreshFailed, fate >>
  /\ UNCHANGED sendVars
  /\ thrown' = [thrown EXCEPT ![p] = CursorUndefined]
  /\ stopCursor' = NotStopped

\* poll() resumes after await this.refreshDidHandleMap():
\*   this.agent.withProxy(...) throws a TypeError when this.agent is null,
\*   otherwise getLog({cursor: this.cursor}) is issued and awaited
getLogCall(p) ==
  /\ ~InSync
  /\ pollPc[p] = "refreshed"
  /\ IF agent = NoAgent
     THEN /\ pollPc' = [pollPc EXCEPT ![p] = CatchPc(running)]
          /\ refreshFailed' = [refreshFailed EXCEPT ![p] = FALSE]
          /\ last' = Rec("typeError", p, CursorUndefined, 0)
          /\ UNCHANGED << reqAuthed, reqCursor, stopCursor >>
     ELSE /\ pollPc' = [pollPc EXCEPT ![p] = "getLog"]
          /\ UNCHANGED refreshFailed
          /\ stopCursor' = NotStopped
          /\ reqAuthed' = [reqAuthed EXCEPT ![p] = session[agent] # "undefined"]
          /\ reqCursor' = [reqCursor EXCEPT ![p] = cursor]
          /\ last' = Rec("getLogCall", p, CursorUndefined, 0)
  /\ UNCHANGED << identifier, password, running, agent, nextAgent, session,
                  messageCallback, cursor, didHandleMap, startPc, loginId, batch,
                  myDid, stopState, stale, fate >>
  /\ UNCHANGED sendVars
  /\ thrown' = [thrown EXCEPT ![p] = CursorUndefined]

\* data.cursor of a getLog response to a request made with cursor c: none, an
\* empty string, or the cursor of a log position at or after c's
Returned(c) == {CursorUndefined, CursorEmpty} \cup From(c)..LogLen

\* the returned cursor stored without the test for a non-empty one
StoreCursor_Unconditional(cur, ret) == ret

\* lines 117-119
StoreCursor(cur, ret) == IF Truthy(ret) THEN ret ELSE cur

\* getLog returned {cursor: ret, logs}: the cursor is stored, myDid is read from
\* this.agent (a TypeError when it is null), and the for-loop begins; iterable is
\* FALSE for a response whose logs cannot be iterated (the for-of throws)
getLogOk(p, ret, iterable) ==
  /\ ~InSync
  /\ pollPc[p] = "getLog"
  /\ reqAuthed[p]
  /\ LET from == From(reqCursor[p])
         logs == IF Truthy(ret) THEN Window(from, ret) ELSE << >>
         lost == {logs[k] : k \in 1..Len(logs)}
     IN /\ cursor' = StoreCursor(cursor, ret)
        /\ reqAuthed' = [reqAuthed EXCEPT ![p] = FALSE]
        /\ reqCursor' = [reqCursor EXCEPT ![p] = CursorUndefined]
        /\ IF agent = NoAgent \/ ~iterable
           THEN /\ pollPc' = [pollPc EXCEPT ![p] = CatchPc(running)]
                /\ fate' = Drop(fate, {i \in lost : IsMessage(i)})
                /\ last' = Rec(IF agent = NoAgent THEN "getLogOkTypeError"
                               ELSE "getLogOkMalformed", p, ret, 0)
                /\ UNCHANGED << batch, myDid >>
           ELSE /\ pollPc' = [pollPc EXCEPT ![p] = IF logs = << >> THEN "sleep" ELSE "batch"]
                /\ batch' = [batch EXCEPT ![p] = logs]
                /\ myDid' = [myDid EXCEPT ![p] = IF logs = << >> THEN "undefined"
                                                 ELSE session[agent]]
                /\ last' = Rec("getLogOk", p, ret, 0)
                /\ UNCHANGED fate
  /\ refreshFailed' = EndTick(refreshFailed, p, pollPc'[p])
  /\ UNCHANGED << identifier, password, running, agent, nextAgent, session,
                  messageCallback, didHandleMap, startPc, loginId, stopState, stale >>
  /\ UNCHANGED sendVars
  /\ UNCHANGED << thrown, stopCursor >>

\* the catch block forgetting the cursor
getLogThrow_ClearsCursor(p) ==
  /\ ~InSync
  /\ pollPc[p] = "getLog"
  /\ pollPc' = [pollPc EXCEPT ![p] = CatchPc(running)]
  /\ reqAuthed' = [reqAuthed EXCEPT ![p] = FALSE]
  /\ reqCursor' = [reqCursor EXCEPT ![p] = CursorUndefined]
  /\ refreshFailed' = [refreshFailed EXCEPT ![p] = FALSE]
  /\ cursor' = CursorUndefined
  /\ last' = Rec("getLogThrow", p, CursorUndefined, 0)
  /\ UNCHANGED << identifier, password, running, agent, nextAgent, session,
                  messageCallback, didHandleMap, startPc, loginId, batch,
                  myDid, stopState, stale, fate >>
  /\ UNCHANGED sendVars
  /\ UNCHANGED << thrown, stopCursor >>

\* getLog threw: the catch block
getLogThrow(p) ==
  /\ ~InSync
  /\ pollPc[p] = "getLog"
  /\ pollPc' = [pollPc EXCEPT ![p] = CatchPc(running)]
  /\ reqAuthed' = [reqAuthed EXCEPT ![p] = FALSE]
  /\ reqCursor' = [reqCursor EXCEPT ![p] = CursorUndefined]
  /\ refreshFailed' = [refreshFailed EXCEPT ![p] = FALSE]
  /\ last' = Rec("getLogThrow", p, CursorUndefined, 0)
  /\ UNCHANGED << identifier, password, running, agent, nextAgent, session,
                  messageCallback, cursor, didHandleMap, startPc, loginId, batch,
                  myDid, stopState, stale, fate >>
  /\ UNCHANGED sendVars
  /\ UNCHANGED << thrown, stopCursor >>

\* what the registered callback may do when invoked
CallbackBehaviours == {"return", "throw", "stop"}

\* one iteration of for (const log of data.logs), lines 122-142
forLog(p, does) ==
  /\ pollPc[p] = "batch"
  /\ LET i == Head(batch[p])
         rest == Tail(batch[p])
         end == IF rest = << >> THEN "sleep" ELSE "batch"
         after == IF rest = << >> THEN "undefined" ELSE myDid[p]
     IN IF ~Passes(i, myDid[p])
        THEN \* continue
             /\ does = "return"
             /\ pollPc' = [pollPc EXCEPT ![p] = end]
             /\ batch' = [batch EXCEPT ![p] = rest]
             /\ myDid' = [myDid EXCEPT ![p] = after]
             /\ last' = Rec("skip", p, CursorUndefined, i)
             /\ UNCHANGED << running, agent, stopState, stale, stopCursor, fate >>
        ELSE IF messageCallback = "none"
        THEN \* this.messageCallback?.(...) with no callback
             /\ does = "return"
             /\ pollPc' = [pollPc EXCEPT ![p] = end]
             /\ batch' = [batch EXCEPT ![p] = rest]
             /\ myDid' = [myDid EXCEPT ![p] = after]
             /\ fate' = Unheard(fate, i)
             /\ last' = Rec("noCallback", p, CursorUndefined, i)
             /\ UNCHANGED << running, agent, stopState, stale, stopCursor >>
        ELSE /\ CASE does = "return" ->
                       /\ pollPc' = [pollPc EXCEPT ![p] = end]
                       /\ batch' = [batch EXCEPT ![p] = rest]
                       /\ myDid' = [myDid EXCEPT ![p] = after]
                       /\ fate' = Deliver(fate, i)
                       /\ last' = Rec("callback", p, CursorUndefined, i)
                       /\ UNCHANGED << running, agent, stopState, stale, stopCursor >>
                  [] does = "throw" ->
                       /\ pollPc' = [pollPc EXCEPT ![p] = CatchPc(running)]
                       /\ batch' = [batch EXCEPT ![p] = << >>]
                       /\ myDid' = [myDid EXCEPT ![p] = "undefined"]
                       /\ fate' = Drop(Deliver(fate, i),
                            {rest[k] : k \in {j \in 1..Len(rest) : IsMessage(rest[j])}})
                       /\ last' = Rec("callbackThrow", p, CursorUndefined, i)
                       /\ UNCHANGED << running, agent, stopState, stale, stopCursor >>
                  [] does = "stop" ->
                       \* the callback calls stop() and returns
                       /\ running' = FALSE
                       /\ agent' = NoAgent
                       /\ StopHistory
                       /\ pollPc' = [pollPc EXCEPT ![p] = end]
                       /\ batch' = [batch EXCEPT ![p] = rest]
                       /\ myDid' = [myDid EXCEPT ![p] = after]
                       /\ fate' = Deliver(fate, i)
                       /\ last' = Rec("callbackStop", p, CursorUndefined, i)
  /\ refreshFailed' = EndTick(refreshFailed, p, pollPc'[p])
  /\ UNCHANGED << identifier, password, nextAgent, session, messageCallback, cursor,
                  didHandleMap, startPc, loginId, reqAuthed, reqCursor >>
  /\ UNCHANGED sendVars
  /\ thrown' = IF last'.op = "callbackThrow" /\ pollPc'[p] = "sleep"
                THEN [thrown EXCEPT ![p] = batch[p][Len(batch[p])]]
                ELSE thrown

\* the sleep is over and the next tick begins without the while condition
wake_Reenters(p) ==
  /\ ~InSync
  /\ pollPc[p] = "sleep"
  /\ pollPc' = [pollPc EXCEPT ![p] = "listConvos"]
  /\ reqAuthed' = [reqAuthed EXCEPT ![p] = FALSE]
  /\ last' = Rec("wake", p, CursorUndefined, 0)
  /\ UNCHANGED << identifier, password, running, agent, nextAgent, session,
                  messageCallback, cursor, didHandleMap, startPc, loginId, reqCursor,
                  batch, myDid, stopState, stale, refreshFailed, fate >>
  /\ UNCHANGED sendVars
  /\ UNCHANGED << thrown, stopCursor >>

\* the sleep is over: the while condition, then the next tick's listConvos
wake(p) ==
  /\ ~InSync
  /\ pollPc[p] = "sleep"
  /\ LoopTop(p, running, agent, session)
  /\ last' = Rec("wake", p, CursorUndefined, 0)
  /\ UNCHANGED << identifier, password, running, agent, nextAgent, session,
                  messageCallback, cursor, didHandleMap, startPc, loginId, reqCursor,
                  batch, myDid, stopState, stale, refreshFailed, fate >>
  /\ UNCHANGED sendVars
  /\ thrown' = IF pollPc'[p] = "done" THEN [thrown EXCEPT ![p] = CursorUndefined] ELSE thrown
  /\ UNCHANGED stopCursor

\* ---------------------------------------------------------------------------

\* The host of this specification configures the channel once, with both
\* credentials, and registers one callback at most once; start() and stop() are
\* called at any time, also while earlier invocations are still pending.
Next ==
  \/ \E i \in Identifiers \ {""}, pw \in Passwords \ {""} :
        identifier = "" /\ configure(i, pw)
  \/ startNoop
  \/ startLogin
  \/ \E s \in Agents : loginOk(s)
  \/ \E s \in Agents : loginFail(s)
  \/ stop
  \/ messageCallback = "none" /\ onMessage("cb1")
  \/ \E p \in Agents, members \in Listings : listConvosOk(p, members)
  \/ \E p \in Agents : listConvosThrow(p)
  \/ \E p \in Agents : getLogCall(p)
  \/ \E p \in Agents : \E ret \in Returned(reqCursor[p]), iterable \in BOOLEAN :
        getLogOk(p, ret, iterable)
  \/ \E p \in Agents : getLogThrow(p)
  \/ \E p \in Agents, does \in CallbackBehaviours : forLog(p, does)
  \/ \E p \in Agents : wake(p)

Spec == Init /\ [][Next]_vars

\* The host of this specification calls every operation of the facade with every
\* argument, in every state, except that it calls start() with both credentials
\* set only when no earlier start() is awaiting its login and every earlier
\* poll() loop has returned.  The backend answers getLog with the whole of the
\* log not yet read or with nothing.
NextFacade ==
  \/ \E i \in Identifiers, pw \in Passwords : configure(i, pw)
  \/ startNoop
  \/ PendingLogins = {} /\ ActiveLoops = {} /\ startLogin
  \/ \E s \in Agents : loginOk(s)
  \/ \E s \in Agents : loginFail(s)
  \/ stop
  \/ \E cb \in Callbacks : onMessage(cb)
  \/ \E groupId \in GroupIds, text \in Texts : send(groupId, text)
  \/ sendResolve
  \/ sendReject
  \/ \E groupId \in GroupIds, typing \in BOOLEAN : setTyping(groupId, typing)
  \/ isConfigured
  \/ \E p \in Agents, members \in Listings : listConvosOk(p, members)
  \/ \E p \in Agents : listConvosThrow(p)
  \/ \E p \in Agents : getLogCall(p)
  \/ \E p \in Agents : \E ret \in {CursorUndefined, LogLen} :
        getLogOk(p, ret, TRUE)
  \/ \E p \in Agents : getLogThrow(p)
  \/ \E p \in Agents, does \in CallbackBehaviours : forLog(p, does)
  \/ \E p \in Agents : wake(p)

SpecFacade == Init /\ [][NextFacade]_vars

\* The steps of poll() invocation p that follow an await: every backend call and
\* every sleep ends, and the synchronous for-loop runs on.
listConvosDone(p) == listConvosThrow(p) \/ \E members \in Listings : listConvosOk(p, members)
getLogDone(p) == getLogThrow(p) \/ \E ret \in {CursorUndefined, LogLen} : getLogOk(p, ret, TRUE)
forLogStep(p) == \E does \in CallbackBehaviours : forLog(p, does)

\* The host and the backend of Spec, with getLog answered by the whole of the
\* log not yet read or by nothing.
NextFair ==
  \/ \E i \in Identifiers \ {""}, pw \in Passwords \ {""} :
        identifier = "" /\ configure(i, pw)
  \/ startNoop
  \/ startLogin
  \/ \E s \in Agents : loginOk(s)
  \/ \E s \in Agents : loginFail(s)
  \/ stop
  \/ messageCallback = "none" /\ onMessage("cb1")
  \/ \E p \in Agents : listConvosDone(p)
  \/ \E p \in Agents : getLogCall(p)
  \/ \E p \in Agents : getLogDone(p)
  \/ \E p \in Agents : forLogStep(p)
  \/ \E p \in Agents : wake(p)

\* No call of the host is ever required; a started poll() invocation is never
\* left waiting forever.
Fairness ==
  \A p \in Agents :
    /\ WF_vars(listConvosDone(p))
    /\ WF_vars(getLogCall(p))
    /\ WF_vars(getLogDone(p))
    /\ WF_vars(forLogStep(p))
    /\ WF_vars(wake(p))

SpecFair == Init /\ [][NextFair]_vars /\ Fairness

\* ---------------------------------------------------------------------------
\* Properties
\* ---------------------------------------------------------------------------

\* steps that invoke the registered callback
CallbackOps == {"callback", "callbackThrow", "callbackStop"}

\* steps whose exception reaches poll()'s catch block
CaughtOps == {"typeError", "getLogThrow", "getLogOkTypeError", "getLogOkMalformed",
              "callbackThrow"}

\* steps in which getLog returned
FetchedOps == {"getLogOk", "getLogOkTypeError", "getLogOkMalformed"}

\* the steps of a tick whose getLog call throws
FailedTickOps == {"loginOk", "wake", "listConvosOk", "listConvosThrow", "getLogCall",
                  "getLogThrow"}

\* the events some for-loop has still to visit
Pending == UNION {{batch[p][k] : k \in 1..Len(batch[p])} : p \in Agents}

\* a message view sent by someone other than the account of the adapter
FromOthers(i) == IsMessage(i) /\ Log[i].sender # DidOf("alice")

\* C1: the callback is never invoked for a message-created event whose sender is
\* the account an agent of the adapter is logged in as.
C1_NoSelfMessageDelivered ==
  \A i \in 1..LogLen :
    fate[i] = "delivered" => \A a \in Agents : session[a] # Log[i].sender

\* C2: no step of a tick whose fetch throws writes the cursor: after each of them,
\* and after the step that handles the throw, the stored cursor is the one the
\* step found.
C2_FetchFailureKeepsCursor ==
  last.op \in FailedTickOps => cursor = last.cur

C2_Witness ==
  /\ last.op = "getLogThrow"
  /\ cursor # CursorUndefined
  /\ pollPc[last.p] = "sleep"

\* C3: right after a fetch returned, the stored cursor is the returned cursor when
\* that is non-empty, whatever the batch holds, and the previous cursor when the
\* returned cursor is absent or empty.
C3_CursorAfterFetch ==
  last.op \in FetchedOps =>
    cursor = IF last.ret \in 0..LogLen THEN last.ret ELSE last.cur

C3_Witness ==
  /\ last.op = "getLogOk"
  /\ last.ret \in 0..LogLen
  /\ last.ret # last.cur
  /\ cursor = last.ret
  /\ \A k \in 1..Len(batch[last.p]) : ~FromOthers(batch[last.p][k])

\* C4: the stored cursor never moves backwards: after every step it is at or
\* after the cursor the step found (undefined before every cursor).
C4_CursorNeverMovesBack == last.cur <= cursor

\* C5: at most one poll() loop is active at any time.
C5_AtMostOneLoop == Cardinality(ActiveLoops) <= 1

\* C6: after stop(), and as long as start() is not called, the running flag is
\* false and the agent is absent.
C6_StoppedStaysStopped ==
  stopState = "stopped" => ~running /\ agent = NoAgent

\* C7: once stop() has been called, the callback is not invoked until a start()
\* called afterwards has logged in.
C7_NoCallbackAfterStop ==
  last.op \in CallbackOps => last.st = "clear"

\* C8 as stated: every message view from another sender that the stored cursor
\* has advanced past (and that no running for-loop has still to visit) has been
\* delivered to the callback.
C8_NoLoss ==
  \A i \in 1..From(cursor) :
    FromOthers(i) /\ i \notin Pending => fate[i] = "delivered"

\* C8 amended: every message view from another sender that the stored cursor has
\* advanced past was returned by a fetch and reached by the loop: it was
\* delivered, or passed over because the tick ended early or no callback was
\* registered, or a running for-loop has still to visit it.
C8_NoUnfetchedLoss ==
  \A i \in 1..From(cursor) :
    FromOthers(i) /\ i \notin Pending =>
      fate[i] \in {"delivered", "dropped", "unheard"}

C8_Witness ==
  /\ cursor = LogLen
  /\ Pending = {}
  /\ \E i, j \in 1..LogLen :
       /\ FromOthers(i) /\ fate[i] = "delivered"
       /\ FromOthers(j) /\ fate[j] = "dropped"

\* C9: no message is delivered to the callback more than once.
C9_NoDuplicateDelivery ==
  last.op \in CallbackOps => last.was # "delivered"

\* C10 as stated: a failure inside a tick, the identity refresh included, while
\* the adapter is running: the tick invokes no further callback, the loop sleeps
\* and then starts the next tick.
C10_FailureEndsTick ==
  /\ last.op \in CaughtOps /\ running =>
       pollPc[last.p] = "sleep" /\ batch[last.p] = << >>
  /\ last.op \in CallbackOps => ~refreshFailed[last.p]
  /\ last.op = "wake" /\ running /\ agent # NoAgent =>
       pollPc[last.p] = "listConvos"

\* C10 amended: an exception that reaches the catch block (fetch, malformed
\* response, callback) while the running flag is set ends the tick without a
\* further callback and the loop sleeps; when the sleep ends with the running
\* flag and the agent still set, the next tick starts; a failed identity refresh
\* does not end the tick, which goes on to the fetch.
C10_CaughtFailureEndsTick ==
  /\ last.op \in CaughtOps /\ running =>
       pollPc[last.p] = "sleep" /\ batch[last.p] = << >>
  /\ last.op = "listConvosThrow" => pollPc[last.p] = "refreshed"
  /\ last.op = "wake" /\ running /\ agent # NoAgent =>
       pollPc[last.p] = "listConvos"

C10_Witness ==
  /\ last.op = "callbackThrow"
  /\ running
  /\ pollPc[last.p] = "sleep"
  /\ \E i \in 1..LogLen : i > last.ev /\ fate[i] = "dropped"

\* C11: once a start() has logged in, and as long as stop() is not called, a
\* poll() loop is alive to attempt the next fetch.
C11_LoopAliveUntilStop ==
  running /\ stopState = "clear" => ActiveLoops # {}

\* the steps in which send() was called
SendOps == {"send", "sendNoop"}

\* C12: a send() called while the running flag is not set issues no backend
\* call.
C12_NoSendCallUnlessRunning ==
  last.op \in SendOps /\ ~running => sent = << >>

\* C13: a send("bsky:" + c, text) called while the running flag is set has
\* issued exactly one sendMessage request, for conversation c with that text.
C13_RunningSendIssuesOneCall ==
  last.op \in SendOps /\ running =>
    /\ Len(sent) = 1
    /\ sendArgs.groupId # << >> /\ Head(sendArgs.groupId) = "bsky:" =>
         /\ <<"bsky:">> \o sent[1].convoId = sendArgs.groupId
         /\ sent[1].text = sendArgs.text

\* C14: when the sendMessage request fails, the promise send() returned
\* rejects, no further request is made, and the step changes neither the
\* running flag, the agent and its session, the cursor nor any poll() loop.
C14_SendFailurePropagates ==
  [][last'.op = "sendReject" =>
       /\ last'.out = "rejected"
       /\ sent' = << >>
       /\ UNCHANGED << running, agent, session, cursor, pollPc, reqAuthed,
                       reqCursor, batch, myDid, startPc >>]_vars

C14_Witness ==
  /\ last.op = "sendReject"
  /\ last.out = "rejected"
  /\ running /\ agent # NoAgent
  /\ cursor = LogLen
  /\ \E p \in Agents : pollPc[p] = "getLog"

\* the steps in which start() was called
StartOps == {"startNoop", "startLogin"}

\* C15: a start() called while the running flag is set or a credential is
\* empty changes nothing of the channel: no agent, no login call, no loop.
C15_StartNoop ==
  [][last'.op \in StartOps /\ (running \/ identifier = "" \/ password = "") =>
       UNCHANGED channelVars]_vars

C15_Witness ==
  /\ last.op = "startNoop"
  /\ running /\ agent # NoAgent
  /\ password = ""
  /\ nextAgent < MaxStarts
  /\ ActiveLoops # {}

\* C16: after a login call has failed, the agent is cleared, the running flag
\* is not set, the failed start() has started no loop, and the credentials are
\* still the stored ones, so that start() may be called again.
C16_LoginFailureLeavesStopped ==
  last.op = "loginFail" =>
    /\ agent = NoAgent
    /\ ~running
    /\ pollPc[last.p] = "none"

\* C17: isConfigured() returns true exactly when both stored credentials are
\* non-empty, whatever the running flag, the agent and the pending calls are,
\* and changes nothing of the channel.
C17_IsConfiguredPure ==
  [][last'.op = "isConfigured" =>
       /\ last'.out = "true" <=> identifier # "" /\ password # ""
       /\ last'.out \in {"true", "false"}
       /\ UNCHANGED channelVars]_vars

C17_Witness ==
  /\ last.op = "isConfigured"
  /\ last.out = "false"
  /\ identifier # "" /\ password = ""
  /\ running /\ agent # NoAgent

\* an event that is not a "message created" event, or that carries no message,
\* or whose message is not a message view
Noise(i) ==
  \/ Log[i].type # "logCreateMessage"
  \/ Log[i].msg = "none"
  \/ Log[i].msg # "messageView"

\* the steps in which the for-loop passed over an event
PassedOps == {"skip", "noCallback"}

\* C18: the callback is never invoked for an event that is not a "message
\* created" event carrying a message view; the for-loop passes over such an
\* event without an exception and goes on to the next event of the batch (or,
\* after the last one, to the sleep).
C18_NoiseSkipped ==
  /\ \A i \in 1..LogLen : Noise(i) => fate[i] = "none"
  /\ last.op \in CallbackOps => ~Noise(last.ev)
  /\ last.op \in PassedOps \cup CallbackOps /\ Noise(last.ev) =>
       /\ last.op = "skip"
       /\ IF batch[last.p] = << >>
          THEN pollPc[last.p] = "sleep"
          ELSE pollPc[last.p] = "batch" /\ Head(batch[last.p]) = last.ev + 1

C18_Witness ==
  /\ last.op = "skip"
  /\ Log[last.ev].type = "logCreateMessage" /\ Log[last.ev].msg = "deletedMessageView"
  /\ messageCallback # "none"
  /\ running
  /\ pollPc[last.p] = "batch"
  /\ FromOthers(Head(batch[last.p]))
  /\ fate[1] = "delivered" /\ fate[3] = "none" /\ fate[4] = "none"

\* C19: every getLog request carries the cursor stored when it is made, and the
\* stored cursor is changed only by a fetch that returned a non-empty cursor,
\* to that cursor: the first fetch is made with the unset cursor, and a fetch
\* made after one that returned c, with no other return in between, with c.
C19_FetchCarriesStoredCursor ==
  [][/\ last'.op = "getLogCall" =>
          reqCursor'[last'.p] = cursor /\ cursor' = cursor
     /\ cursor' # cursor =>
          last'.op \in FetchedOps /\ Truthy(last'.ret) /\ cursor' = last'.ret]_vars

C19_Witness ==
  /\ last.op = "getLogCall"
  /\ cursor \in 1..(LogLen - 1)
  /\ reqCursor[last.p] = cursor
  /\ fate[cursor] = "delivered"
  /\ Cardinality(ActiveLoops) = 1

\* C20: the for-loop visits the events of a batch in the order of the response
\* (the log's order), one event a step: a callback invocation carries the one
\* event the loop is at, and the events still to visit are exactly those that
\* follow it in the response.
C20_BatchOrder ==
  /\ \A p \in Agents : \A k \in 1..(Len(batch[p]) - 1) :
        batch[p][k + 1] = batch[p][k] + 1
  /\ last.op \in CallbackOps =>
       /\ last.msg.id = last.ev
       /\ fate[last.ev] = "delivered"
       /\ last.op # "callbackThrow" /\ batch[last.p] # << >> =>
            Head(batch[last.p]) = last.ev + 1

C20_Witness ==
  /\ last.op = "callback"
  /\ last.ev = 1
  /\ pollPc[last.p] = "batch"
  /\ batch[last.p] = Window(1, LogLen)
  /\ fate[LogLen] = "none"

\* C21: the group id of every message handed to the callback is the prefix
\* followed by the event's conversation id, and a send() called with the group
\* id of a message addresses the conversation id of that message's event, also
\* when the conversation id itself begins with the text of the prefix.
C21_GroupIdRoundTrip ==
  /\ last.op \in CallbackOps =>
       last.msg.groupId = <<"bsky:">> \o Log[last.ev].convoId
  /\ last.op = "send" =>
       \A i \in 1..LogLen :
         IsMessage(i) /\ sendArgs.groupId = InboundMessage(i).groupId =>
           sent[Len(sent)].convoId = Log[i].convoId

C21_Witness ==
  /\ last.op = "send"
  /\ fate[LogLen] = "delivered"
  /\ sendArgs.groupId = <<"bsky:">> \o Log[LogLen].convoId
  /\ Head(Log[LogLen].convoId) = "bsky:"
  /\ sent = << [convoId |-> Log[LogLen].convoId, text |-> sendArgs.text,
                authed |-> TRUE] >>

\* C22: the sender of a message handed to the callback is the handle the map
\* holds for the sender's did, and the did itself when the map holds none; the
\* step makes no backend call and does not write the map.
C22_SenderResolved ==
  [][last'.op \in CallbackOps =>
       /\ last'.msg.sender =
            IF didHandleMap[Log[last'.ev].sender] \notin {NoHandle, ""}
            THEN didHandleMap[Log[last'.ev].sender]
            ELSE Log[last'.ev].sender
       /\ UNCHANGED << didHandleMap, reqAuthed, reqCursor, sent >>]_vars

C22_Witness ==
  /\ last.op = "callback"
  /\ Log[last.ev].sender = "did:bob"
  /\ last.msg.sender = "bob.test"
  /\ didHandleMap["did:carol"] = NoHandle

\* C23: when listConvos throws, the map, the cursor, the running flag and the
\* agent are left as they are and the tick goes on: with the agent still set
\* its next step issues getLog with the stored cursor, a fetch that returns a
\* non-empty cursor stores it, and the callback is invoked with the sender
\* resolved from the map as it was.
C23_RefreshFailureSwallowed ==
  [][/\ last'.op = "listConvosThrow" =>
          /\ pollPc'[last'.p] = "refreshed"
          /\ UNCHANGED << didHandleMap, cursor, running, agent >>
     /\ last'.p \in Agents /\ refreshFailed[last'.p] =>
          /\ pollPc[last'.p] = "refreshed" /\ agent # NoAgent =>
               /\ last'.op = "getLogCall"
               /\ pollPc'[last'.p] = "getLog"
               /\ reqCursor'[last'.p] = cursor
          /\ last'.op = "getLogOk" /\ Truthy(last'.ret) => cursor' = last'.ret
          /\ last'.op \in CallbackOps =>
               /\ fate'[last'.ev] = "delivered"
               /\ last'.msg.sender = Resolve(didHandleMap, Log[last'.ev].sender)]_vars

C23_Witness ==
  /\ last.op = "callback"
  /\ refreshFailed[last.p]
  /\ last.msg.sender = "did:bob"
  /\ cursor = LogLen
  /\ didHandleMap = [d \in MapKeys |-> NoHandle]

\* C24: one callback is registered at a time: onMessage(cb) makes cb the
\* registered callback, nothing else changes the registration, and every
\* message is handed to the callback registered when it is emitted and to no
\* other, also when the registration changed while a loop was running.
C24_LatestCallbackOnly ==
  [][/\ last'.op = "onMessage" => messageCallback' = last'.out
     /\ messageCallback' # messageCallback => last'.op = "onMessage"
     /\ last'.op \in CallbackOps =>
          last'.out = messageCallback /\ last'.out \in Callbacks]_vars

\* cb2 replaces cb1 while a loop awaits its fetch
C24_Witness ==
  /\ last.op = "onMessage"
  /\ last.was = "cb1" /\ last.out = "cb2"
  /\ running
  /\ \E p \in Agents : pollPc[p] = "getLog"

\* C25: setTyping() returns without an exception and changes nothing: the
\* credentials, the running flag, the agent and its session, the cursor, the
\* map, the callback, and every pending backend call are as before.
C25_SetTypingNoop ==
  [][last'.op = "setTyping" =>
       last'.out = "returned" /\ UNCHANGED channelVars]_vars

C25_Witness ==
  /\ last.op = "setTyping"
  /\ running /\ agent # NoAgent
  /\ sendPc = "await"
  /\ cursor = LogLen
  /\ \E p \in Agents : pollPc[p] = "getLog"

\* what configure() must leave alone: everything but the two credentials
configureFrame == << running, agent, nextAgent, session, messageCallback, cursor,
                     didHandleMap, startPc, loginId, pollPc, reqAuthed, reqCursor,
                     batch, myDid, sendPc, sent >>

\* C26: configure() writes the two credentials and nothing else, in every
\* state; a second call with the same arguments (one that finds the
\* credentials it stores) changes nothing at all.
C26_ConfigureOnlyStores ==
  [][last'.op = "configure" =>
       /\ identifier' \in Identifiers /\ password' \in Passwords
       /\ UNCHANGED configureFrame
       /\ identifier' = identifier /\ password' = password =>
            UNCHANGED channelVars]_vars

C26_Witness ==
  /\ last.op = "configure"
  /\ identifier = "alice" /\ password = ""
  /\ running /\ agent # NoAgent
  /\ cursor = LogLen
  /\ didHandleMap["did:bob"] # NoHandle
  /\ \E p \in Agents : pollPc[p] = "getLog"

\* C27: once stop() has been called, and until start() is called again, a
\* sleep that ends finds the loop condition false and the loop returns, and
\* every poll() invocation eventually has returned.
C27_LoopEndsAfterStop ==
  /\ [](last.op = "wake" /\ last.st = "stopped" => pollPc[last.p] = "done")
  /\ (stopState = "stopped") ~> (stopState # "stopped" \/ ActiveLoops = {})

C27_Witness ==
  /\ last.op = "wake"
  /\ last.st = "stopped"
  /\ stopState = "stopped"
  /\ pollPc[last.p] = "done"
  /\ ActiveLoops = {}
  /\ cursor = LogLen

\* C28: an exception that reaches the catch block after stop() was called, and
\* before any later start(), makes the loop return: no sleep, no further tick.
C28_StoppedFailureExits ==
  last.op \in CaughtOps /\ last.st = "stopped" => pollPc[last.p] = "done"

\* C29: when the callback throws on an event of a batch, the stored cursor is
\* the cursor that batch's fetch returned (the position of the batch's last
\* event) and remains it, the tick ends without delivering any later event of
\* the batch, and the loop's next fetch is made with that cursor.
C29_CursorStoredBeforeBatch ==
  [][/\ last'.op = "callbackThrow" =>
          LET p == last'.p
              returned == batch[p][Len(batch[p])]
              rest == Tail(batch[p])
          IN /\ cursor = returned
             /\ cursor' = returned
             /\ batch'[p] = << >>
             /\ pollPc'[p] \in {"sleep", "done"}
             /\ \A k \in 1..Len(rest) :
                  fate'[rest[k]] = "delivered" => fate[rest[k]] = "delivered"
     /\ last'.op = "getLogCall" /\ Truthy(thrown[last'.p]) =>
          reqCursor'[last'.p] = thrown[last'.p]]_vars

\* the steps taken by start() and by stop(), the stop() a callback makes included
StartStopOps == {"startNoop", "startLogin", "loginOk", "loginFail", "stop",
                 "callbackStop"}

\* start() and stop() leave the cursor and the identity cache as they are, and
\* the first fetch issued after a stop() carries the cursor stop() found stored
C30_RestartUsesCursorBeforeStop ==
  [][/\ last'.op \in StartStopOps => UNCHANGED << cursor, didHandleMap >>
     /\ last'.op = "getLogCall" /\ stopCursor # NotStopped =>
          reqCursor'[last'.p] = stopCursor]_vars

\* C30: no step of start() or stop() changes the cursor or the identity cache;
\* the first fetch issued after a stop() carries the cursor stored at that
\* time, and between the stop() and that fetch the cursor is changed only by a
\* fetch issued before the stop() that returns a non-empty cursor, the
\* identity cache only by a refresh issued before it.
C30_StartStopKeepCursorAndCache ==
  [][/\ last'.op \in StartStopOps => UNCHANGED << cursor, didHandleMap >>
     /\ last'.op = "getLogCall" /\ stopCursor # NotStopped =>
          reqCursor'[last'.p] = cursor
     /\ stopCursor # NotStopped /\ cursor' # cursor =>
          last'.op \in FetchedOps /\ Truthy(last'.ret) /\ cursor' = last'.ret
     /\ stopCursor # NotStopped /\ didHandleMap' # didHandleMap =>
          last'.op = "listConvosOk"]_vars

\* a loop started again after a stop() has issued its first fetch, with the
\* cursor stop() had found stored, and the identity cache is still filled
C30_Witness ==
  /\ last.op = "getLogCall"
  /\ Truthy(last.sc)
  /\ reqCursor[last.p] = last.sc
  /\ \E d \in MemberDids : didHandleMap[d] # NoHandle

\* C31: a key of the identity cache remains a key under every step; the cache
\* is written only when a listConvos call returns, and every entry written then
\* has a non-empty key and a non-empty handle.
C31_CacheOnlyGrows ==
  [][/\ \A d \in MapKeys : didHandleMap[d] # NoHandle => didHandleMap'[d] # NoHandle
     /\ didHandleMap' # didHandleMap => last'.op = "listConvosOk"
     /\ \A d \in MapKeys : didHandleMap'[d] # didHandleMap[d] =>
          d # "" /\ didHandleMap'[d] \notin {NoHandle, ""}]_vars

\* a refresh of a later tick, in flight when stop() was called, has returned:
\* the cache holds the handle of the listed member and no entry with an empty
\* key
C31_Witness ==
  /\ last.op = "listConvosOk"
  /\ didHandleMap["did:bob"] = "bob.test"
  /\ didHandleMap[""] = NoHandle
  /\ cursor = LogLen
  /\ stopState = "stopped"

\* C32: a listConvos or getLog call of a poll() loop that is awaiting its answer
\* was issued on an agent whose login had succeeded.
C32_LoopCallsOnLoggedInSession ==
  \A p \in Agents : pollPc[p] \in {"listConvos", "getLog"} => reqAuthed[p]

\* C33: the running flag is set only while an agent is present.
C33_RunningImpliesAgent == running => agent # NoAgent

\* C34: a step that changes the identifier or the password is a configure();
\* every other step of the facade and of the poll loop leaves both, and with
\* them the value of isConfigured(), as they are.
C34_CredentialsOnlyByConfigure ==
  [][last'.op # "configure" =>
       /\ UNCHANGED << identifier, password >>
       /\ IsConfiguredValue(identifier', password') =
          IsConfiguredValue(identifier, password)]_vars

\* a login failed while a send() was awaiting, the loop of an earlier start()
\* had fetched and a callback was registered: the credentials are still there
C34_Witness ==
  /\ last.op = "loginFail"
  /\ identifier = "alice" /\ password = "pw"
  /\ sendPc = "await"
  /\ messageCallback # "none"
  /\ cursor = LogLen

\* C35: a for-loop step on a deliverable event while no callback is registered
\* raises nothing and leaves the cursor, already the returned one, as it is;
\* an event passed over in this way is not returned by a later fetch and is
\* not handed to a callback registered afterwards.
C35_UnheardEventsStayDropped ==
  [][/\ last'.op = "noCallback" =>
          /\ pollPc'[last'.p] \in {"batch", "sleep"}
          /\ cursor' = cursor
          /\ cursor = batch[last'.p][Len(batch[last'.p])]
          /\ fate'[last'.ev] = "unheard"
     /\ last'.op \in FetchedOps /\ Truthy(last'.ret) =>
          \A i \in 1..LogLen :
            From(reqCursor[last'.p]) < i /\ i <= last'.ret => fate[i] # "unheard"
     /\ \A i \in 1..LogLen : fate[i] = "unheard" => fate'[i] = "unheard"]_vars

====
